---- MODULE Spec2Model ----
(***************************************************************************)
(* A model of the skip list of viif/xsf-skip-list.                         *)
(*                                                                         *)
(* The repository holds three variants of one structure:                   *)
(*   xsf_skip_list::XSFSkipList   src/xsf_skip_list.h   lines   1..211      *)
(*   momu::skip_list::SkipList    src/xsf_skip_list.h   lines 212..380      *)
(*   xsf_skip_list::SkipList      src/unnamed/part_000                      *)
(* The search, insert and delete algorithms are the same in the three; the  *)
(* variants differ in what they return, in which operations take the lock,  *)
(* and in the snapshot codec (dump_file / load_file), which only part_000   *)
(* has.                                                                     *)
(*                                                                         *)
(* The heap is modelled explicitly: a node is an identifier, its fields are *)
(* the functions key_, value_, node_level_ and forward_ of the record sl.   *)
(* forward_[n] has the domain 0..node_level_[n], as the array the Node      *)
(* constructor allocates: an index outside it is an evaluation error.       *)
(***************************************************************************)
EXTENDS Integers, Sequences, FiniteSets, TLC

\* ---------------------------------------------------------------- bounds
MaxKey == 3         \* keys are 1..MaxKey
MaxValue == 2       \* values are 1..MaxValue
MaxLevel == 2       \* the max_level argument of the constructor
TapeLen == 3        \* period of the modelled random bit stream
NumProcs == 2       \* concurrent callers
ConcMaxKey == 2     \* keys the concurrent callers use are 1..ConcMaxKey

Keys == 1..MaxKey
Values == 1..MaxValue
Levels == 0..MaxLevel
Procs == 1..NumProcs
ConcKeys == 1..ConcMaxKey

\* ------------------------------------------------------- pointers, optional
Null == 0           \* nullptr
Header == 1         \* the node header_ points to
FirstNode == 2      \* first identifier handed out by new Node
NodeIds == FirstNode..(FirstNode + MaxKey + NumProcs)

Absent == <<>>      \* std::nullopt
Some(v) == <<v>>    \* std::optional<V> holding v

VARIABLES
    sl,       \* the skip list object and the nodes it owns
    model,    \* ghost: key -> Absent or Some(value of the latest put not yet removed)
    last,     \* history: the last completed call of the single caller and its result
    procs,    \* concurrent callers: where each is in its call, and its locals
    lock,     \* mutex_: 0 when free, else the caller holding it
    uaf,      \* ghost: some caller has read a node after delete released it
    file,     \* the text of STORE_FILE: a sequence of characters
    codec,    \* where a dump / load round is, and ghost: what the dump saw
    twin      \* a second list built with the same seed, and the calls it is behind by

vars == <<sl, model, last, procs, lock, uaf, file, codec, twin>>
concVars == <<procs, lock, uaf>>
codecVars == <<file, codec>>

\* ------------------------------------------------------------- generator
\* std::bernoulli_distribution(0.5) over std::mt19937 seeded by `seed`: a
\* deterministic bit stream.  The stream is modelled as a cyclic tape of length
\* TapeLen; the generator's state is the tape rotated to the next draw.
Seeds == [1..TapeLen -> BOOLEAN]

Advance(gen, n) == [j \in 1..TapeLen |-> gen[((j - 1 + n) % TapeLen) + 1]]

RECURSIVE RandomLevelFrom(_, _)
RandomLevelFrom(gen, k) ==
    IF gen[1] /\ k < MaxLevel
    THEN RandomLevelFrom(Advance(gen, 1), k + 1)
    ELSE k

\* The level drawn from generator state gen.
get_random_level(gen) == RandomLevelFrom(gen, 0)

\* The loop condition draws before it tests k < max_level_, so a call that
\* returns k has drawn k + 1 times.
DrawsFor(lvl) == lvl + 1

\* ------------------------------------------------------------ construction
EmptyList(seed) ==
    [ key_            |-> [n \in {} |-> 0],
      value_          |-> [n \in {} |-> 0],
      node_level_     |-> (Header :> MaxLevel),
      forward_        |-> (Header :> [i \in Levels |-> Null]),
      released        |-> {},
      skip_list_level_ |-> 0,
      element_count_  |-> 0,
      gen_            |-> seed ]

Nodes(s) == DOMAIN s.key_

\* ------------------------------------------------------------------ search
KeyLessMutant(a, b) == a <= b
\* current->forward_[i]->key_ < key
KeyLess(a, b) == a < b

MoveOneStepMutant(s, cur, lvl, k) ==
    LET nxt == s.forward_[cur][lvl] IN
    IF nxt # Null /\ KeyLess(s.key_[nxt], k) THEN nxt ELSE cur

\* while (cur->forward_[lvl] && cur->forward_[lvl]->key_ < key) cur = cur->forward_[lvl]
RECURSIVE move_forward_in_level(_, _, _, _)
move_forward_in_level(s, cur, lvl, k) ==
    LET nxt == s.forward_[cur][lvl] IN
    IF nxt # Null /\ KeyLess(s.key_[nxt], k)
    THEN move_forward_in_level(s, nxt, lvl, k)
    ELSE cur

RECURSIVE SearchFrom(_, _, _, _, _)
SearchFrom(s, cur, i, k, update) ==
    IF i < 0
    THEN [update |-> update, current |-> cur]
    ELSE LET c == move_forward_in_level(s, cur, i, k)
         IN  SearchFrom(s, c, i - 1, k, [update EXCEPT ![i] = c])

\* The search pass of put and remove: update[] (memset to 0, then filled for
\* the levels skip_list_level_..0) and the node the pass ends on.
find_predecessors(s, k) ==
    SearchFrom(s, Header, s.skip_list_level_, k, [i \in Levels |-> Null])

\* The node the search decides on: forward_[0] of the last predecessor.
Candidate(s, k) == s.forward_[find_predecessors(s, k).current][0]

IsMatchMutant(s, current, k) == current # Null
\* current != nullptr && current->key_ == key
IsMatch(s, current, k) == current # Null /\ s.key_[current] = k

IsHit(s, k) == IsMatch(s, Candidate(s, k), k)

\* get: the matched value or std::nullopt.
get(s, k) == IF IsHit(s, k) THEN Some(s.value_[Candidate(s, k)]) ELSE Absent

\* contains: find_node(key) != nullptr.
contains(s, k) == IsHit(s, k)

\* size(): element_count_.
size(s) == s.element_count_

\* --------------------------------------------------------------------- put
\* new Node<K, V>(key, value, level) returns an address no live node has and
\* no dangling pointer holds.  Which one is the allocator's choice; the model
\* fixes it by the key (the k-th identifier when it is free, else the lowest
\* free one), so that two lists with the same links are the same state.
NewNodeId(s, k) ==
    LET free == NodeIds \ (Nodes(s) \cup s.released)
        home == FirstNode + k - 1
    IN  IF home \in free
        THEN home
        ELSE CHOOSE n \in free : \A m \in free : n <= m

\* create_node: key, value and level set, forward_ zero-initialised, level + 1 long.
create_node(s, n, k, v, lvl) ==
    [s EXCEPT !.key_        = (n :> k) @@ @,
              !.value_      = (n :> v) @@ @,
              !.node_level_ = (n :> lvl) @@ @,
              !.forward_    = (n :> [i \in 0..lvl |-> Null]) @@ @]

SpliceLevelMutant(s, n, update, i) == [s EXCEPT !.forward_[update[i]][i] = n]
\* One turn of the splice loop, at level i:
\*   new_node->forward_[i] = update[i]->forward_[i]; update[i]->forward_[i] = new_node
SpliceLevel(s, n, update, i) ==
    LET s1 == [s EXCEPT !.forward_[n][i] = s.forward_[update[i]][i]]
    IN  [s1 EXCEPT !.forward_[update[i]][i] = n]

RECURSIVE SpliceFrom(_, _, _, _, _)
SpliceFrom(s, n, update, i, lvl) ==
    IF i <= lvl
    THEN SpliceFrom(SpliceLevel(s, n, update, i), n, update, i + 1, lvl)
    ELSE s

\* The levels above skip_list_level_ up to the new node's get the header as
\* predecessor.
RaiseUpdate(s, update, lvl) ==
    [i \in Levels |->
        IF lvl > s.skip_list_level_ /\ i >= s.skip_list_level_ + 1 /\ i < lvl + 1
        THEN Header
        ELSE update[i]]

RaiseLevel(s, lvl) ==
    IF lvl > s.skip_list_level_ THEN [s EXCEPT !.skip_list_level_ = lvl] ELSE s

InsertCountMutant(s) == s
\* element_count_++
InsertCount(s) == [s EXCEPT !.element_count_ = @ + 1]

\* The else branch of put up to the splice loop: draw the level, raise the
\* list's level (and update[] with it), create the node.
begin_insert(s, k, v, update) ==
    LET lvl == get_random_level(s.gen_)
        s0  == [s EXCEPT !.gen_ = Advance(@, DrawsFor(lvl))]
        upd == RaiseUpdate(s0, update, lvl)
        s1  == RaiseLevel(s0, lvl)
        n   == NewNodeId(s1, k)
    IN  [s |-> create_node(s1, n, k, v, lvl), node |-> n, update |-> upd, lvl |-> lvl]

\* The else branch of put: then splice the node in at the levels 0..level and
\* count it.
insert_new_node(s, k, v, update) ==
    LET b == begin_insert(s, k, v, update)
    IN  InsertCount(SpliceFrom(b.s, b.node, b.update, 0, b.lvl))

UpdateValueMutant(s, n, v) == [s EXCEPT !.value_[n] = v, !.gen_ = Advance(@, 1)]
\* current->value_ = value
UpdateValue(s, n, v) == [s EXCEPT !.value_[n] = v]

\* put (insert_element): [s: the list after the call, ret: 1 updated, 0 inserted].
put(s, k, v) ==
    LET f == find_predecessors(s, k)
        current == s.forward_[f.current][0]
    IN  IF IsMatch(s, current, k)
        THEN [s |-> UpdateValue(s, current, v), ret |-> 1]
        ELSE [s |-> insert_new_node(s, k, v, f.update), ret |-> 0]

\* ------------------------------------------------------------------ remove
UnlinkLevelMutant(s, current, update, i) ==
    IF i = 0 /\ s.forward_[update[i]][i] = current
    THEN [s EXCEPT !.forward_[update[i]][i] = s.forward_[current][i]]
    ELSE s
\* One turn of the unlink loop, at level i:
\*   if (update[i]->forward_[i] == current) update[i]->forward_[i] = current->forward_[i]
UnlinkLevel(s, current, update, i) ==
    IF s.forward_[update[i]][i] = current
    THEN [s EXCEPT !.forward_[update[i]][i] = s.forward_[current][i]]
    ELSE s

UnlinkMoreMutant(s, i) == i < s.skip_list_level_
\* for (i = 0; i <= skip_list_level_; i++)
UnlinkMore(s, i) == i <= s.skip_list_level_

UnlinkFromMutant(s, current, update, i) == s
\* The unlink loop, from level i on.
RECURSIVE UnlinkFrom(_, _, _, _)
UnlinkFrom(s, current, update, i) ==
    IF UnlinkMore(s, i)
    THEN UnlinkFrom(UnlinkLevel(s, current, update, i), current, update, i + 1)
    ELSE s

AdjustMoreMutant(s) == FALSE
\* while (skip_list_level_ > 0 && header_->forward_[skip_list_level_] == nullptr)
\*     skip_list_level_--
AdjustMore(s) ==
    s.skip_list_level_ > 0 /\ s.forward_[Header][s.skip_list_level_] = Null

RECURSIVE adjust_max_level(_)
adjust_max_level(s) ==
    IF AdjustMore(s)
    THEN adjust_max_level([s EXCEPT !.skip_list_level_ = @ - 1])
    ELSE s

Restrict(f, S) == [x \in S |-> f[x]]

\* Whether a forward link of a node of the list still holds n.
Linked(s, n) ==
    \E m \in DOMAIN s.forward_ : \E i \in DOMAIN s.forward_[m] : s.forward_[m][i] = n

\* delete current: the node's fields are gone.  A released identifier that some
\* pointer in `pinned`, or some forward link, still holds is remembered in
\* `released` (a dangling pointer); one nothing holds may be handed out again.
delete_node_memory(s, n, pinned) ==
    LET keep == Nodes(s) \ {n}
        s1 == [s EXCEPT !.key_        = Restrict(@, keep),
                        !.value_      = Restrict(@, keep),
                        !.node_level_ = Restrict(@, keep \cup {Header}),
                        !.forward_    = Restrict(@, keep \cup {Header})]
    IN  [s1 EXCEPT !.released =
            {m \in @ \cup {n} : m \in pinned \/ Linked(s1, m)}]

\* element_count_--
RemoveCount(s) == [s EXCEPT !.element_count_ = @ - 1]

\* remove (delete_element): [s: the list after the call, ret: whether a node
\* was removed (momu::skip_list::SkipList::remove returns it)].
remove(s, k) ==
    LET f == find_predecessors(s, k)
        current == s.forward_[f.current][0]
    IN  IF IsMatch(s, current, k)
        THEN LET s1 == UnlinkFrom(s, current, f.update, 0)
                 s2 == adjust_max_level(s1)
                 s3 == delete_node_memory(s2, current, {})
             IN  [s |-> RemoveCount(s3), ret |-> TRUE]
        ELSE [s |-> s, ret |-> FALSE]

\* ------------------------------------------------------------ observations
\* The nodes met walking level i from `n` on, as dump_file walks level 0 and
\* display_list every level.  The walk stops after `fuel` nodes and at a
\* pointer that is no node of the list (it is kept, as the walk's last entry).
RECURSIVE ChainFrom(_, _, _, _)
ChainFrom(s, n, i, fuel) ==
    IF n = Null \/ fuel = 0
    THEN << >>
    ELSE IF n \notin DOMAIN s.forward_ \/ i \notin DOMAIN s.forward_[n]
         THEN << n >>
         ELSE << n >> \o ChainFrom(s, s.forward_[n][i], i, fuel - 1)

LevelChain(s, i) == ChainFrom(s, s.forward_[Header][i], i, Cardinality(NodeIds) + 1)

SeqSet(q) == {q[j] : j \in 1..Len(q)}

AllLive(s, q) == SeqSet(q) \subseteq Nodes(s)

KeysOf(s, q) == [j \in 1..Len(q) |-> s.key_[q[j]]]

StrictlyIncreasing(q) == \A j \in 1..(Len(q) - 1) : q[j] < q[j + 1]

\* The key -> optional value map the level-0 chain holds.
AbsMap(s) ==
    [k \in Keys |->
        IF \E n \in SeqSet(LevelChain(s, 0)) : s.key_[n] = k
        THEN Some(s.value_[CHOOSE n \in SeqSet(LevelChain(s, 0)) : s.key_[n] = k])
        ELSE Absent]

\* Whether a node of the level-0 chain holds key k.
HasKey(s, k) == \E n \in SeqSet(LevelChain(s, 0)) : s.key_[n] = k

\* The node of the level-0 chain holding key k.
NodeOf(s, k) == CHOOSE n \in SeqSet(LevelChain(s, 0)) : s.key_[n] = k

\* 3.1 level contiguity: a node linked at level i is linked at level i - 1.
LevelContiguity(s) ==
    \A i \in 1..MaxLevel :
        /\ SeqSet(LevelChain(s, i)) \subseteq SeqSet(LevelChain(s, i - 1))
        /\ \A n \in SeqSet(LevelChain(s, i)) : n \in Nodes(s) /\ s.node_level_[n] >= i

\* 3.2 per-level order: keys strictly increase along every level.
PerLevelOrder(s) ==
    \A i \in Levels :
        /\ AllLive(s, LevelChain(s, i))
        /\ StrictlyIncreasing(KeysOf(s, LevelChain(s, i)))

SetMax(S) == CHOOSE x \in S : \A y \in S : y <= x

\* 3.4 top-level consistency.
TopLevelConsistent(s) ==
    /\ s.skip_list_level_ = SetMax({s.node_level_[n] : n \in Nodes(s)} \cup {0})
    /\ \A j \in (s.skip_list_level_ + 1)..MaxLevel : s.forward_[Header][j] = Null

\* 3.5 count consistency.
CountConsistent(s) == s.element_count_ = Len(LevelChain(s, 0))

Present == {k \in Keys : model[k] # Absent}

\* ------------------------------------------------- one caller, whole calls
ModelInit == [k \in Keys |-> Absent]

NoCall == [op |-> "none", key |-> 0, res |-> 0]

\* No dump or load has been called.
NoRound ==
    [phase |-> "build", vtype |-> "int", pairs |-> {}, count |-> 0, threw |-> FALSE,
     lines |-> << >>, key |-> << >>, value |-> << >>, log |-> << >>]

\* No second list.
NoTwin == [variant |-> "none", sl |-> << >>, ahead |-> << >>, rand |-> << >>]

\* A caller outside every call.
Idle ==
    [pc |-> "idle", key |-> 0, value |-> 0, lvl |-> 0, cur |-> Null, i |-> 0,
     update |-> << >>, res |-> Absent, stable |-> FALSE, exp |-> Absent,
     stack |-> << >>, freed |-> << >>]

InitList ==
    /\ \E seed \in Seeds : sl = EmptyList(seed)
    /\ model = ModelInit
    /\ last = NoCall
    /\ procs = [p \in Procs |-> Idle]
    /\ lock = 0
    /\ uaf = FALSE
    /\ file = << >>
    /\ twin = NoTwin

Init ==
    /\ InitList
    /\ codec = NoRound

Put(k, v) ==
    /\ sl' = put(sl, k, v).s
    /\ model' = [model EXCEPT ![k] = Some(v)]
    /\ last' = [op |-> "put", key |-> k, res |-> put(sl, k, v).ret]
    /\ UNCHANGED <<concVars, codecVars, twin>>

Get(k) ==
    /\ last' = [op |-> "get", key |-> k, res |-> get(sl, k)]
    /\ UNCHANGED <<sl, model, concVars, codecVars, twin>>

Contains(k) ==
    /\ last' = [op |-> "contains", key |-> k, res |-> contains(sl, k)]
    /\ UNCHANGED <<sl, model, concVars, codecVars, twin>>

Remove(k) ==
    /\ sl' = remove(sl, k).s
    /\ model' = [model EXCEPT ![k] = Absent]
    /\ last' = [op |-> "remove", key |-> k, res |-> remove(sl, k).ret]
    /\ UNCHANGED <<concVars, codecVars, twin>>

Size ==
    /\ last' = [op |-> "size", key |-> 0, res |-> size(sl)]
    /\ UNCHANGED <<sl, model, concVars, codecVars, twin>>

Next ==
    \/ \E k \in Keys, v \in Values : Put(k, v)
    \/ \E k \in Keys : Get(k)
    \/ \E k \in Keys : Contains(k)
    \/ \E k \in Keys : Remove(k)
    \/ Size

Spec == Init /\ [][Next]_vars

\* ----------------------------------------- concurrent callers, XSFSkipList
\* put and remove hold mutex_ (std::lock_guard) from their first statement to
\* their return; get takes no lock.  A step of a caller is one access to the
\* shared links that another caller can observe: what a lock holder only
\* reads (its search pass) is taken together with its next write.

Walking == {"get_walk", "get_check"}

\* The nodes the traversals of get currently stand on.
Pinned(pr) == {pr[q].cur : q \in {q \in Procs : pr[q].pc \in Walking}}

\* A put or remove of key k takes the lock: the gets of k in progress no longer
\* have one value they must return.
Disturb(pr, k) ==
    [q \in Procs |->
        IF pr[q].pc \in Walking \cup {"get_ret"} /\ pr[q].key = k
        THEN [pr[q] EXCEPT !.stable = FALSE]
        ELSE pr[q]]

\* put, from the lock to the first write: the value of the matched node, or
\* the list's level and the new node.
PutCall(p, k, v) ==
    /\ procs[p].pc = "idle"
    /\ lock = 0
    /\ lock' = p
    /\ model' = [model EXCEPT ![k] = Some(v)]
    /\ LET f == find_predecessors(sl, k)
           current == sl.forward_[f.current][0]
       IN  IF IsMatch(sl, current, k)
           THEN /\ sl' = UpdateValue(sl, current, v)
                /\ procs' = [Disturb(procs, k) EXCEPT
                                ![p] = [Idle EXCEPT !.pc = "put_unlock", !.key = k]]
           ELSE LET b == begin_insert(sl, k, v, f.update) IN
                /\ sl' = b.s
                /\ procs' = [Disturb(procs, k) EXCEPT
                                ![p] = [Idle EXCEPT !.pc = "put_splice", !.key = k,
                                                    !.cur = b.node, !.i = 0,
                                                    !.update = b.update]]
    /\ UNCHANGED <<last, codecVars, uaf, twin>>

\* One turn of the splice loop.
PutSplice(p) ==
    /\ procs[p].pc = "put_splice"
    /\ sl' = SpliceLevel(sl, procs[p].cur, procs[p].update, procs[p].i)
    /\ procs' = [procs EXCEPT ![p] =
                    IF procs[p].i + 1 <= sl.node_level_[procs[p].cur]
                    THEN [@ EXCEPT !.i = @ + 1]
                    ELSE [@ EXCEPT !.pc = "put_count"]]
    /\ UNCHANGED <<model, last, codecVars, lock, uaf, twin>>

\* element_count_++ and the return, which unlocks.
PutFinish(p) ==
    /\ procs[p].pc = "put_count"
    /\ sl' = InsertCount(sl)
    /\ lock' = 0
    /\ procs' = [procs EXCEPT ![p] = Idle]
    /\ UNCHANGED <<model, last, codecVars, uaf, twin>>

\* The return of a put that updated a value.
PutUnlock(p) ==
    /\ procs[p].pc = "put_unlock"
    /\ lock' = 0
    /\ procs' = [procs EXCEPT ![p] = Idle]
    /\ UNCHANGED <<sl, model, last, codecVars, uaf, twin>>

\* remove, from the lock through the search pass.
RemoveCall(p, k) ==
    /\ procs[p].pc = "idle"
    /\ lock = 0
    /\ lock' = p
    /\ model' = [model EXCEPT ![k] = Absent]
    /\ LET f == find_predecessors(sl, k)
           current == sl.forward_[f.current][0]
       IN  procs' = [Disturb(procs, k) EXCEPT ![p] =
                IF IsMatch(sl, current, k)
                THEN [Idle EXCEPT !.pc = "rm_unlink", !.key = k, !.cur = current,
                                  !.i = 0, !.update = f.update]
                ELSE [Idle EXCEPT !.pc = "rm_unlock", !.key = k]]
    /\ UNCHANGED <<sl, last, codecVars, uaf, twin>>

\* One turn of the unlink loop.
RemoveUnlink(p) ==
    /\ procs[p].pc = "rm_unlink"
    /\ sl' = UnlinkLevel(sl, procs[p].cur, procs[p].update, procs[p].i)
    /\ procs' = [procs EXCEPT ![p] =
                    IF UnlinkMore(sl, procs[p].i + 1)
                    THEN [@ EXCEPT !.i = @ + 1]
                    ELSE [@ EXCEPT !.pc = "rm_adjust"]]
    /\ UNCHANGED <<model, last, codecVars, lock, uaf, twin>>

\* One turn of the loop lowering skip_list_level_, or its exit.
RemoveAdjust(p) ==
    /\ procs[p].pc = "rm_adjust"
    /\ IF AdjustMore(sl)
       THEN /\ sl' = [sl EXCEPT !.skip_list_level_ = @ - 1]
            /\ UNCHANGED procs
       ELSE /\ procs' = [procs EXCEPT ![p].pc = "rm_delete"]
            /\ UNCHANGED sl
    /\ UNCHANGED <<model, last, codecVars, lock, uaf, twin>>

\* delete current
RemoveDelete(p) ==
    /\ procs[p].pc = "rm_delete"
    /\ sl' = delete_node_memory(sl, procs[p].cur, Pinned(procs))
    /\ procs' = [procs EXCEPT ![p] = [@ EXCEPT !.pc = "rm_count", !.cur = Null,
                                                !.update = << >>, !.i = 0]]
    /\ UNCHANGED <<model, last, codecVars, lock, uaf, twin>>

\* element_count_-- and the return, which unlocks.
RemoveFinish(p) ==
    /\ procs[p].pc = "rm_count"
    /\ sl' = RemoveCount(sl)
    /\ lock' = 0
    /\ procs' = [procs EXCEPT ![p] = Idle]
    /\ UNCHANGED <<model, last, codecVars, uaf, twin>>

\* The return of a remove that found no node.
RemoveUnlock(p) ==
    /\ procs[p].pc = "rm_unlock"
    /\ lock' = 0
    /\ procs' = [procs EXCEPT ![p] = Idle]
    /\ UNCHANGED <<sl, model, last, codecVars, uaf, twin>>

\* get starts: current = header_, i = skip_list_level_.  No lock is taken.
\* Ghost: exp is the value the latest put of k left, stable whether no put or
\* remove of k is in progress.
GetCall(p, k) ==
    /\ procs[p].pc = "idle"
    /\ procs' = [procs EXCEPT ![p] =
          [Idle EXCEPT !.pc = "get_walk", !.key = k, !.cur = Header,
                       !.i = sl.skip_list_level_,
                       !.exp = model[k],
                       !.stable = (lock = 0 \/ procs[lock].key # k)]]
    /\ UNCHANGED <<sl, model, last, codecVars, lock, uaf, twin>>

\* The released identifiers some pointer still holds, after the callers' locals
\* became pr.
Collect(s, pr) ==
    [s EXCEPT !.released = {m \in @ : m \in Pinned(pr) \/ Linked(s, m)}]

\* A read through a pointer to a released node is undefined behaviour: the
\* call may return anything.
GetUndefined(p) ==
    /\ uaf' = TRUE
    /\ \E r \in {Absent} \cup {Some(v) : v \in Values} :
          procs' = [procs EXCEPT ![p] = [@ EXCEPT !.pc = "get_ret", !.cur = Null,
                                                  !.i = 0, !.res = r]]
    /\ sl' = Collect(sl, procs')
    /\ UNCHANGED <<model, last, codecVars, lock, twin>>

\* One turn of the inner loop of get (current = current->forward_[i]) or, when
\* its condition fails, of the outer one (i--).
GetWalk(p) ==
    /\ procs[p].pc = "get_walk"
    /\ LET cur == procs[p].cur
           i == procs[p].i
       IN  IF cur \in sl.released \/ sl.forward_[cur][i] \in sl.released
           THEN GetUndefined(p)
           ELSE LET nxt == sl.forward_[cur][i] IN
                /\ procs' = [procs EXCEPT ![p] =
                      IF nxt # Null /\ KeyLess(sl.key_[nxt], procs[p].key)
                      THEN [@ EXCEPT !.cur = nxt]
                      ELSE IF i > 0
                           THEN [@ EXCEPT !.i = i - 1]
                           ELSE [@ EXCEPT !.pc = "get_check"]]
                /\ UNCHANGED <<sl, model, last, codecVars, lock, uaf, twin>>

\* current = current->forward_[0]; the match test; the value.
GetCheck(p) ==
    /\ procs[p].pc = "get_check"
    /\ LET cur == procs[p].cur IN
       IF cur \in sl.released \/ sl.forward_[cur][0] \in sl.released
       THEN GetUndefined(p)
       ELSE LET current == sl.forward_[cur][0] IN
            /\ procs' = [procs EXCEPT ![p] =
                  [@ EXCEPT !.pc = "get_ret", !.cur = Null, !.i = 0,
                            !.res = IF IsMatch(sl, current, procs[p].key)
                                    THEN Some(sl.value_[current])
                                    ELSE Absent]]
            /\ UNCHANGED <<sl, model, last, codecVars, lock, uaf, twin>>

\* get returns.
GetReturn(p) ==
    /\ procs[p].pc = "get_ret"
    /\ procs' = [procs EXCEPT ![p] = Idle]
    /\ UNCHANGED <<sl, model, last, codecVars, lock, uaf, twin>>

NextConc ==
    \/ \E p \in Procs, k \in ConcKeys, v \in Values : PutCall(p, k, v)
    \/ \E p \in Procs : PutSplice(p)
    \/ \E p \in Procs : PutFinish(p)
    \/ \E p \in Procs : PutUnlock(p)
    \/ \E p \in Procs, k \in ConcKeys : RemoveCall(p, k)
    \/ \E p \in Procs : RemoveUnlink(p)
    \/ \E p \in Procs : RemoveAdjust(p)
    \/ \E p \in Procs : RemoveDelete(p)
    \/ \E p \in Procs : RemoveFinish(p)
    \/ \E p \in Procs : RemoveUnlock(p)
    \/ \E p \in Procs, k \in ConcKeys : GetCall(p, k)
    \/ \E p \in Procs : GetWalk(p)
    \/ \E p \in Procs : GetCheck(p)
    \/ \E p \in Procs : GetReturn(p)

SpecConc == Init /\ [][NextConc]_vars

\* ------------------------------------------- snapshot codec, part_000
\* dump_file writes `key << ":" << value << std::endl` for each node of level
\* 0; load_file reads the lines back with std::getline, splits each at its
\* first ':' and inserts std::stoi(key), std::stoi(value).  The file is a
\* sequence of characters; a character is a one-character string.

DigitChars == <<"0", "1", "2", "3", "4", "5", "6", "7", "8", "9">>
Colon == ":"
Newline == "\n"
Minus == "-"

RECURSIVE FormatNat(_)
FormatNat(n) ==
    IF n < 10
    THEN << DigitChars[n + 1] >>
    ELSE FormatNat(n \div 10) \o << DigitChars[(n % 10) + 1] >>

\* operator<<(std::ostream&, int): decimal, a leading '-' for a negative.
FormatInt(n) == IF n < 0 THEN << Minus >> \o FormatNat(-n) ELSE FormatNat(n)

\* V is int or double (SkipList<int, int>, SkipList<int, double>).  A double
\* is one of the multiples of 0.5 and is held as its number of halves.
\* operator<<(std::ostream&, double), default format: "4" for 4.0, "1.5",
\* "-0.5".
FormatDouble(h) ==
    IF h % 2 = 0
    THEN FormatInt(h \div 2)
    ELSE (IF h < 0 THEN << Minus >> ELSE << >>)
            \o FormatNat((IF h < 0 THEN -h ELSE h) \div 2) \o << ".", "5" >>

FormatValue(vt, x) == IF vt = "double" THEN FormatDouble(x) ELSE FormatInt(x)

\* The conversion of the int std::stoi returns to V, at the call of
\* insert_element.
FromInt(vt, n) == IF vt = "double" THEN 2 * n ELSE n

\* The text dump_file writes for the list s.
RECURSIVE DumpFrom(_, _, _)
DumpFrom(vt, s, n) ==
    IF n = Null
    THEN << >>
    ELSE FormatInt(s.key_[n]) \o << Colon >> \o FormatValue(vt, s.value_[n])
            \o << Newline >> \o DumpFrom(vt, s, s.forward_[n][0])

dump_file(vt, s) == DumpFrom(vt, s, s.forward_[Header][0])

\* str.find(c): the first position of c in str (from 1), 0 for npos.
RECURSIVE FindFrom(_, _, _)
FindFrom(str, c, j) ==
    IF j > Len(str) THEN 0
    ELSE IF str[j] = c THEN j
    ELSE FindFrom(str, c, j + 1)

Find(str, c) == FindFrom(str, c, 1)

\* The lines std::getline yields: the text up to each '\n', and what follows
\* the last '\n' when that is not empty.
RECURSIVE GetLines(_)
GetLines(text) ==
    IF text = << >>
    THEN << >>
    ELSE LET nl == Find(text, Newline) IN
         IF nl = 0
         THEN << text >>
         ELSE << SubSeq(text, 1, nl - 1) >> \o GetLines(SubSeq(text, nl + 1, Len(text)))

\* !str.empty() && str.find(':') != npos
is_valid_string(str) == str # << >> /\ Find(str, Colon) # 0

KeyPart(str) == SubSeq(str, 1, Find(str, Colon) - 1)

ValuePartMutant(str) == SubSeq(str, Find(str, Colon), Len(str))
\* str.substr(str.find(':') + 1)
ValuePart(str) == SubSeq(str, Find(str, Colon) + 1, Len(str))

\* get_key_value_from_string: key and value are left as they were when the
\* line is not valid.
get_key_value_from_string(str, key, value) ==
    IF ~is_valid_string(str)
    THEN [key |-> key, value |-> value]
    ELSE [key |-> KeyPart(str), value |-> ValuePart(str)]

IsDigit(c) == \E d \in 1..10 : DigitChars[d] = c

DigitValue(c) == (CHOOSE d \in 1..10 : DigitChars[d] = c) - 1

IsSpace(c) == c \in {" ", "\t", Newline, "\r"}

RECURSIVE SkipSpaces(_)
SkipSpaces(str) ==
    IF str # << >> /\ IsSpace(str[1]) THEN SkipSpaces(Tail(str)) ELSE str

RECURSIVE ParseDigits(_, _)
ParseDigits(str, acc) ==
    IF str # << >> /\ IsDigit(str[1])
    THEN ParseDigits(Tail(str), 10 * acc + DigitValue(str[1]))
    ELSE acc

\* std::stoi(str): leading white space, an optional sign, then the longest
\* run of digits; std::invalid_argument (ok = FALSE) when there is no digit.
stoi(str) ==
    LET s1 == SkipSpaces(str)
        neg == s1 # << >> /\ s1[1] = Minus
        s2 == IF s1 # << >> /\ s1[1] \in {Minus, "+"} THEN Tail(s1) ELSE s1
    IN  IF s2 = << >> \/ ~IsDigit(s2[1])
        THEN [ok |-> FALSE, val |-> 0]
        ELSE [ok |-> TRUE,
              val |-> IF neg THEN -ParseDigits(s2, 0) ELSE ParseDigits(s2, 0)]

\* The loop of load_file over the lines left, with the strings key and value
\* declared before the loop.  An exception of std::stoi leaves the loop and
\* load_file (threw).
RECURSIVE LoadLines(_, _, _, _, _)
LoadLines(vt, s, lines, key, value) ==
    IF lines = << >>
    THEN [s |-> s, threw |-> FALSE]
    ELSE LET kv == get_key_value_from_string(Head(lines), key, value) IN
         IF kv.key = << >> \/ kv.value = << >>
         THEN LoadLines(vt, s, Tail(lines), kv.key, kv.value)
         ELSE IF ~stoi(kv.key).ok \/ ~stoi(kv.value).ok
              THEN [s |-> s, threw |-> TRUE]
              ELSE LoadLines(vt,
                             put(s, stoi(kv.key).val, FromInt(vt, stoi(kv.value).val)).s,
                             Tail(lines), kv.key, kv.value)

load_file(vt, s, text) == LoadLines(vt, s, GetLines(text), << >>, << >>)

\* The (key, value) pairs of the level-0 chain.
Pairs(s) == {<<s.key_[n], s.value_[n]>> : n \in SeqSet(LevelChain(s, 0))}

\* Keys and values of the lists that are dumped and loaded: ints, and for
\* SkipList<int, double> the doubles -1.5, 0.5 and 4.0 (in halves).
CodecKeys == {-12, 7, 105}
CodecValues(vt) == IF vt = "double" THEN {-3, 1, 8} ELSE {-3, 0, 40}
ValueTypes == {"int", "double"}

InitCodec ==
    /\ InitList
    /\ \E vt \in ValueTypes : codec = [NoRound EXCEPT !.vtype = vt]

CodecPut(k, v) ==
    /\ codec.phase = "build"
    /\ sl' = put(sl, k, v).s
    /\ UNCHANGED <<model, last, concVars, codecVars, twin>>

CodecDelete(k) ==
    /\ codec.phase = "build"
    /\ sl' = remove(sl, k).s
    /\ UNCHANGED <<model, last, concVars, codecVars, twin>>

\* dump_file()
DumpFile ==
    /\ codec.phase = "build"
    /\ file' = dump_file(codec.vtype, sl)
    /\ codec' = [codec EXCEPT !.phase = "dumped", !.pairs = Pairs(sl), !.count = size(sl)]
    /\ UNCHANGED <<sl, model, last, concVars, twin>>

\* A fresh empty list of the same type is constructed; rand() is the
\* process's, and goes on from where it is.
FreshList ==
    /\ codec.phase = "dumped"
    /\ sl' = EmptyList(sl.gen_)
    /\ codec' = [codec EXCEPT !.phase = "fresh"]
    /\ UNCHANGED <<model, last, concVars, file, twin>>

\* load_file() on the fresh list
LoadFile ==
    /\ codec.phase = "fresh"
    /\ sl' = load_file(codec.vtype, sl, file).s
    /\ codec' = [codec EXCEPT !.phase = "loaded", !.threw = load_file(codec.vtype, sl, file).threw]
    /\ UNCHANGED <<model, last, concVars, file, twin>>

NextCodec ==
    \/ \E k \in CodecKeys, v \in CodecValues(codec.vtype) : CodecPut(k, v)
    \/ \E k \in CodecKeys : CodecDelete(k)
    \/ DumpFile
    \/ FreshList
    \/ LoadFile

SpecCodec == InitCodec /\ [][NextCodec]_vars

\* ------------------------------------- load_file, one line at a time
\* load_file on a SkipList<int, int>, over files that dump_file did not
\* write.  One step per turn of the while loop of lines 361..370.  The strings
\* key and value are declared before the loop (line 360) and keep what the last
\* line holding a ':' gave them.
LineTexts ==
    { << "5", ":", "5", "0" >>,
      << >>,
      << ":", "4", "0" >>,
      << "b", "a", "d" >>,
      << "7", ":", "7", "0" >>,
      << "5", ":", "6" >>,
      << "7", ":" >>,
      << "x", ":", "1" >>,
      << "5", ":", "7", ":", "0" >> }

MaxLines == 3

RECURSIVE JoinLines(_)
JoinLines(ls) ==
    IF ls = << >> THEN << >> ELSE Head(ls) \o << Newline >> \o JoinLines(Tail(ls))

\* "5:50\n\n:40\nbad\n7:70\n"
ScenarioText ==
    JoinLines(<< << "5", ":", "5", "0" >>, << >>, << ":", "4", "0" >>,
                 << "b", "a", "d" >>, << "7", ":", "7", "0" >> >>)

LoadTexts ==
    {JoinLines(ls) : ls \in UNION {[1..n -> LineTexts] : n \in 1..MaxLines}}
        \cup {ScenarioText}

InitLoad ==
    /\ \E seed \in Seeds : sl = EmptyList(seed)
    /\ model = ModelInit
    /\ last = NoCall
    /\ procs = [p \in Procs |-> Idle]
    /\ lock = 0
    /\ uaf = FALSE
    /\ file \in LoadTexts
    /\ twin = NoTwin
    /\ codec = [NoRound EXCEPT !.phase = "fresh"]

\* file_reader_.open(STORE_FILE); std::string line; std::string key, value;
OpenFile ==
    /\ codec.phase = "fresh"
    /\ codec' = [codec EXCEPT !.phase = "loading", !.lines = GetLines(file),
                              !.key = << >>, !.value = << >>]
    /\ UNCHANGED <<sl, model, last, concVars, file, twin>>

\* What one turn of the loop writes to std::cout.
Said(key, value) == [kind |-> "Load", key |-> key, value |-> value]
SaidNothing == [kind |-> "none", key |-> << >>, value |-> << >>]

\* One turn of the loop: getline, get_key_value_from_string, the test of
\* line 364, then insert_element(std::stoi(key), std::stoi(value)) and the
\* "Load key" message.  std::invalid_argument thrown by std::stoi leaves
\* load_file.
LoadLine ==
    /\ codec.phase = "loading"
    /\ codec.lines # << >>
    /\ LET line == Head(codec.lines)
           kv == get_key_value_from_string(line, codec.key, codec.value)
           c1 == [codec EXCEPT !.lines = Tail(@), !.key = kv.key, !.value = kv.value]
       IN  IF kv.key = << >> \/ kv.value = << >>
           THEN /\ codec' = [c1 EXCEPT !.log = Append(@, [line |-> line, put |-> FALSE, said |-> SaidNothing])]
                /\ sl' = sl
           ELSE IF ~stoi(kv.key).ok \/ ~stoi(kv.value).ok
           THEN /\ codec' = [c1 EXCEPT !.phase = "loaded", !.threw = TRUE,
                                       !.log = Append(@, [line |-> line, put |-> FALSE, said |-> SaidNothing])]
                /\ sl' = sl
           ELSE /\ codec' = [c1 EXCEPT !.log = Append(@, [line |-> line, put |-> TRUE, said |-> Said(kv.key, kv.value)])]
                /\ sl' = put(sl, stoi(kv.key).val, FromInt(codec.vtype, stoi(kv.value).val)).s
    /\ UNCHANGED <<model, last, concVars, file, twin>>

\* getline fails at the end of the file; file_reader_.close()
CloseFile ==
    /\ codec.phase = "loading"
    /\ codec.lines = << >>
    /\ codec' = [codec EXCEPT !.phase = "loaded"]
    /\ UNCHANGED <<sl, model, last, concVars, file, twin>>

NextLoad ==
    \/ OpenFile
    \/ LoadLine
    \/ CloseFile

SpecLoad == InitLoad /\ [][NextLoad]_vars

\* ------------------------------------------ put, when new throws
\* create_node's `new Node<K, V>(key, value, level)`, or the constructor's
\* `new Node<K, V>*[level + 1]`, throws std::bad_alloc: put has drawn the level
\* and raised skip_list_level_ (lines 81..91), and nothing of lines 93..102 runs.
put_bad_alloc(s) ==
    LET lvl == get_random_level(s.gen_)
        s0  == [s EXCEPT !.gen_ = Advance(@, DrawsFor(lvl))]
    IN  RaiseLevel(s0, lvl)

\* put(k, _) of an absent key that ends by std::bad_alloc.
PutBadAlloc(k) ==
    /\ ~IsHit(sl, k)
    /\ sl' = put_bad_alloc(sl)
    /\ last' = [op |-> "put_bad_alloc", key |-> k, res |-> 0]
    /\ UNCHANGED <<model, concVars, codecVars, twin>>

NextAlloc ==
    \/ Next
    \/ \E k \in Keys : PutBadAlloc(k)

SpecAlloc == Init /\ [][NextAlloc]_vars

\* ------------------------------------ two lists built with one seed
\* Two lists of one process, constructed with the same seed and max_level;
\* the second (twin.sl) is given the calls the first (sl) was given, in the
\* same order, possibly later (twin.ahead: the calls it is behind by).
\*   XSFSkipList (and momu's SkipList): each list owns its std::mt19937 gen_,
\*     seeded by the constructor; twin.rand is the gen_ of a third list.
\*   SkipList of part_000: get_random_level calls rand(), whose state is the
\*     process's: twin.rand, which the gen_ field of both lists mirrors.
MaxAhead == 2

Variants == {"XSFSkipList", "SkipList"}

\* The generator state every list of the process sees after a draw left the
\* drawing list in state g: its own for XSFSkipList, g for rand().
Shared(variant, own, g) == IF variant = "SkipList" THEN g ELSE own

InitTwin ==
    /\ \E seed \in Seeds, other \in Seeds, variant \in Variants :
          /\ sl = EmptyList(Shared(variant, seed, other))
          /\ twin = [variant |-> variant,
                     sl      |-> EmptyList(Shared(variant, seed, other)),
                     ahead   |-> << >>,
                     rand    |-> other]
    /\ model = ModelInit
    /\ last = NoCall
    /\ procs = [p \in Procs |-> Idle]
    /\ lock = 0
    /\ uaf = FALSE
    /\ file = << >>
    /\ codec = NoRound

\* A call applied to the list s.
Apply(s, call) ==
    IF call.op = "put" THEN put(s, call.key, call.value).s ELSE remove(s, call.key).s

\* The first list is given a call.
TwinCall(call) ==
    /\ Len(twin.ahead) < MaxAhead
    /\ LET a == Apply(sl, call) IN
          /\ sl' = a
          /\ twin' = [twin EXCEPT !.ahead = Append(@, call),
                                  !.sl.gen_ = Shared(twin.variant, @, a.gen_),
                                  !.rand = Shared(twin.variant, @, a.gen_)]
    /\ UNCHANGED <<model, last, concVars, codecVars>>

\* The second list is given the next call the first was given.
TwinReplay ==
    /\ twin.ahead # << >>
    /\ LET b == Apply(twin.sl, Head(twin.ahead)) IN
          /\ twin' = [twin EXCEPT !.ahead = Tail(@),
                                  !.sl = b,
                                  !.rand = Shared(twin.variant, @, b.gen_)]
          /\ sl' = [sl EXCEPT !.gen_ = Shared(twin.variant, @, b.gen_)]
    /\ UNCHANGED <<model, last, concVars, codecVars>>

\* A third list of the process inserts a new key: one get_random_level().
OtherPut ==
    /\ LET g == Advance(twin.rand, DrawsFor(get_random_level(twin.rand))) IN
          /\ twin' = [twin EXCEPT !.rand = g,
                                  !.sl.gen_ = Shared(twin.variant, @, g)]
          /\ sl' = [sl EXCEPT !.gen_ = Shared(twin.variant, @, g)]
    /\ UNCHANGED <<model, last, concVars, codecVars>>

NextTwin ==
    \/ \E k \in Keys, v \in Values : TwinCall([op |-> "put", key |-> k, value |-> v])
    \/ \E k \in Keys : TwinCall([op |-> "remove", key |-> k, value |-> 0])
    \/ TwinReplay
    \/ OtherPut

SpecTwin == InitTwin /\ [][NextTwin]_vars

\* --------------------------------- the 8-bit level type, XSFSkipList
\* max_level_, skip_list_level_, the drawn level and the counters of the
\* raise, splice and unlink loops are uint8_t; the counter of the search loop
\* is int.  `uint8_t i; i++` wraps from 255 to 0, and the loop conditions
\* `i < new_node_level + 1` and `i <= new_node_level` are evaluated in int.
\* One caller; one step per loop turn; procs[1] holds the call's locals.
LevelBits == 8

U8(x) == x % (2 ^ LevelBits)

\* The max_level arguments the lists are constructed with.
WideMaxLevels == {1, 254, 255}

max_level_(s) == s.node_level_[Header]

\* XSFSkipList(max_level, seed): the header has max_level + 1 links.
WideList(max_level, seed) ==
    [EmptyList(seed) EXCEPT !.node_level_ = (Header :> max_level),
                            !.forward_ = (Header :> [i \in 0..max_level |-> Null])]

InitWide ==
    /\ \E seed \in Seeds, ml \in WideMaxLevels : sl = WideList(ml, seed)
    /\ model = ModelInit
    /\ last = NoCall
    /\ procs = [p \in Procs |-> Idle]
    /\ lock = 0
    /\ uaf = FALSE
    /\ file = << >>
    /\ codec = NoRound
    /\ twin = NoTwin

\* put and remove start: the lock, current = header_, update[] memset to 0,
\* i = skip_list_level_.
WideCall(op, k, v) ==
    /\ procs[1].pc = "idle"
    /\ lock = 0
    /\ lock' = 1
    /\ procs' = [procs EXCEPT ![1] =
          [Idle EXCEPT !.pc = op, !.key = k, !.value = v, !.cur = Header,
                       !.i = sl.skip_list_level_,
                       !.update = [i \in 0..max_level_(sl) |-> Null]]]
    /\ UNCHANGED <<sl, model, last, codecVars, uaf, twin>>

\* One turn of the search loop (int i): move forward in level i, record
\* update[i], i--.
WideSearchLevel ==
    /\ procs[1].pc \in {"put_search", "rm_search"}
    /\ LET c == move_forward_in_level(sl, procs[1].cur, procs[1].i, procs[1].key) IN
          procs' = [procs EXCEPT ![1].cur = c,
                                 ![1].update[procs[1].i] = c,
                                 ![1].i = IF @ - 1 >= 0 THEN @ - 1 ELSE 0,
                                 ![1].pc = IF procs[1].i - 1 >= 0 THEN @
                                           ELSE IF @ = "put_search" THEN "put_match"
                                           ELSE "rm_match"]
    /\ UNCHANGED <<sl, model, last, codecVars, lock, uaf, twin>>

\* current = current->forward_[0] and the test of line 75: the value of a
\* matched node is written and put returns, or get_random_level is entered.
WidePutMatch ==
    /\ procs[1].pc = "put_match"
    /\ LET current == sl.forward_[procs[1].cur][0] IN
       IF IsMatch(sl, current, procs[1].key)
       THEN /\ sl' = UpdateValue(sl, current, procs[1].value)
            /\ lock' = 0
            /\ procs' = [procs EXCEPT ![1] = Idle]
       ELSE /\ procs' = [procs EXCEPT ![1].pc = "put_draw", ![1].lvl = 0, ![1].cur = Null]
            /\ UNCHANGED <<sl, lock>>
    /\ UNCHANGED <<model, last, codecVars, uaf, twin>>

DrawMoreMutant(gen, k, max_level) == gen[1] /\ k <= max_level
\* distribution_(gen_) && k < max_level_
DrawMore(gen, k, max_level) == gen[1] /\ k < max_level

\* One evaluation of the condition of get_random_level's loop
\*   while (distribution_(gen_) && k < max_level_) k++;
\* (uint8_t k), and at its exit the test of line 83.
WidePutDraw ==
    /\ procs[1].pc = "put_draw"
    /\ sl' = [sl EXCEPT !.gen_ = Advance(@, 1)]
    /\ IF DrawMore(sl.gen_, procs[1].lvl, max_level_(sl))
       THEN procs' = [procs EXCEPT ![1].lvl = U8(@ + 1)]
       ELSE procs' = [procs EXCEPT ![1].pc = IF procs[1].lvl > sl.skip_list_level_
                                             THEN "put_raise" ELSE "put_create",
                                   ![1].i = U8(sl.skip_list_level_ + 1)]
    /\ UNCHANGED <<model, last, codecVars, lock, uaf, twin>>

\* for (uint8_t i = skip_list_level_ + 1; i < new_node_level + 1; i++)
\*     update[i] = header_;
\* skip_list_level_ = new_node_level;
WidePutRaise ==
    /\ procs[1].pc = "put_raise"
    /\ IF procs[1].i < procs[1].lvl + 1
       THEN /\ procs' = [procs EXCEPT ![1].update[procs[1].i] = Header,
                                      ![1].i = U8(@ + 1)]
            /\ UNCHANGED sl
       ELSE /\ sl' = [sl EXCEPT !.skip_list_level_ = procs[1].lvl]
            /\ procs' = [procs EXCEPT ![1].pc = "put_create"]
    /\ UNCHANGED <<model, last, codecVars, lock, uaf, twin>>

\* Node<K, V>* new_node = create_node(key, value, new_node_level);
WidePutCreate ==
    /\ procs[1].pc = "put_create"
    /\ LET n == NewNodeId(sl, procs[1].key) IN
          /\ sl' = create_node(sl, n, procs[1].key, procs[1].value, procs[1].lvl)
          /\ procs' = [procs EXCEPT ![1].pc = "put_splice", ![1].cur = n, ![1].i = 0]
    /\ UNCHANGED <<model, last, codecVars, lock, uaf, twin>>

\* for (uint8_t i = 0; i <= new_node_level; i++) { splice at level i }
WidePutSplice ==
    /\ procs[1].pc = "put_splice"
    /\ IF procs[1].i <= procs[1].lvl
       THEN /\ sl' = SpliceLevel(sl, procs[1].cur, procs[1].update, procs[1].i)
            /\ procs' = [procs EXCEPT ![1].i = U8(@ + 1)]
       ELSE /\ procs' = [procs EXCEPT ![1].pc = "put_count"]
            /\ UNCHANGED sl
    /\ UNCHANGED <<model, last, codecVars, lock, uaf, twin>>

\* element_count_++ and the return.
WidePutFinish ==
    /\ procs[1].pc = "put_count"
    /\ sl' = InsertCount(sl)
    /\ lock' = 0
    /\ procs' = [procs EXCEPT ![1] = Idle]
    /\ UNCHANGED <<model, last, codecVars, uaf, twin>>

\* current = current->forward_[0] and the test of line 149.
WideRemoveMatch ==
    /\ procs[1].pc = "rm_match"
    /\ LET current == sl.forward_[procs[1].cur][0] IN
       IF IsMatch(sl, current, procs[1].key)
       THEN /\ procs' = [procs EXCEPT ![1].pc = "rm_unlink", ![1].cur = current, ![1].i = 0]
            /\ UNCHANGED lock
       ELSE /\ lock' = 0
            /\ procs' = [procs EXCEPT ![1] = Idle]
    /\ UNCHANGED <<sl, model, last, codecVars, uaf, twin>>

\* for (uint8_t i = 0; i <= skip_list_level_; i++) { unlink at level i }
WideRemoveUnlink ==
    /\ procs[1].pc = "rm_unlink"
    /\ IF procs[1].i <= sl.skip_list_level_
       THEN /\ sl' = UnlinkLevel(sl, procs[1].cur, procs[1].update, procs[1].i)
            /\ procs' = [procs EXCEPT ![1].i = U8(@ + 1)]
       ELSE /\ procs' = [procs EXCEPT ![1].pc = "rm_adjust", ![1].update = << >>, ![1].i = 0]
            /\ UNCHANGED sl
    /\ UNCHANGED <<model, last, codecVars, lock, uaf, twin>>

\* One turn of the loop lowering skip_list_level_, or its exit.
WideRemoveAdjust ==
    /\ procs[1].pc = "rm_adjust"
    /\ IF AdjustMore(sl)
       THEN /\ sl' = [sl EXCEPT !.skip_list_level_ = @ - 1]
            /\ UNCHANGED procs
       ELSE /\ procs' = [procs EXCEPT ![1].pc = "rm_delete"]
            /\ UNCHANGED sl
    /\ UNCHANGED <<model, last, codecVars, lock, uaf, twin>>

\* delete current, element_count_-- and the return.
WideRemoveFinish ==
    /\ procs[1].pc = "rm_delete"
    /\ sl' = RemoveCount(delete_node_memory(sl, procs[1].cur, {}))
    /\ lock' = 0
    /\ procs' = [procs EXCEPT ![1] = Idle]
    /\ UNCHANGED <<model, last, codecVars, uaf, twin>>

\* A step of the call in progress.
WideStep ==
    \/ WideSearchLevel
    \/ WidePutMatch
    \/ WidePutDraw
    \/ WidePutRaise
    \/ WidePutCreate
    \/ WidePutSplice
    \/ WidePutFinish
    \/ WideRemoveMatch
    \/ WideRemoveUnlink
    \/ WideRemoveAdjust
    \/ WideRemoveFinish

NextWide ==
    \/ \E k \in Keys, v \in Values : WideCall("put_search", k, v)
    \/ \E k \in Keys : WideCall("rm_search", k, 0)
    \/ WideStep

\* The caller's thread is scheduled: a call in progress takes its next step.
SpecWide == InitWide /\ [][NextWide]_vars /\ WF_vars(WideStep)

\* ------------------------------------------------------------ teardown
\* ~XSFSkipList (lines 43..50) and clear (lines 192..197); ~SkipList and clear
\* of part_000 are the same.  procs[1].stack holds the `node` argument of each
\* activation of clear, the innermost last; procs[1].freed the keys of the
\* nodes deleted so far, in the order of their deletion.

\* ~XSFSkipList(): if (header_->forward_[0] != nullptr) clear(header_->forward_[0]);
Destroy ==
    /\ procs[1].pc = "idle"
    /\ procs' = [procs EXCEPT ![1] =
          IF sl.forward_[Header][0] # Null
          THEN [Idle EXCEPT !.pc = "clear", !.stack = << sl.forward_[Header][0] >>]
          ELSE [Idle EXCEPT !.pc = "delete_header"]]
    /\ UNCHANGED <<sl, model, last, codecVars, lock, uaf, twin>>

\* clear(node), its test: if (node->forward_[0] != nullptr) clear(node->forward_[0]);
\* When `node` is a node that was deleted before, the read is undefined
\* behaviour: anything may follow, and the model stops there (uaf).
ClearCall ==
    /\ procs[1].pc = "clear"
    /\ LET node == procs[1].stack[Len(procs[1].stack)] IN
          IF node \notin Nodes(sl)
          THEN /\ uaf' = TRUE
               /\ procs' = [procs EXCEPT ![1].pc = "undefined"]
          ELSE /\ UNCHANGED uaf
               /\ procs' = [procs EXCEPT ![1] =
                      IF sl.forward_[node][0] # Null
                      THEN [@ EXCEPT !.stack = Append(@, sl.forward_[node][0])]
                      ELSE [@ EXCEPT !.pc = "clear_delete"]]
    /\ UNCHANGED <<sl, model, last, codecVars, lock, twin>>

\* clear(node), its end: delete node; and the return to the caller, which is
\* the activation below or the destructor.
ClearDelete ==
    /\ procs[1].pc = "clear_delete"
    /\ LET node == procs[1].stack[Len(procs[1].stack)]
           rest == SubSeq(procs[1].stack, 1, Len(procs[1].stack) - 1)
       IN  /\ sl' = delete_node_memory(sl, node, SeqSet(rest))
           /\ procs' = [procs EXCEPT ![1].stack = rest,
                                     ![1].freed = Append(@, sl.key_[node]),
                                     ![1].pc = IF rest = << >> THEN "delete_header" ELSE @]
    /\ UNCHANGED <<model, last, codecVars, lock, uaf, twin>>

\* delete header_: the list is gone.
DeleteHeader ==
    /\ procs[1].pc = "delete_header"
    /\ sl' = [sl EXCEPT !.forward_ = Restrict(@, DOMAIN @ \ {Header}),
                        !.node_level_ = Restrict(@, DOMAIN @ \ {Header}),
                        !.released = {}]
    /\ procs' = [procs EXCEPT ![1].pc = "destroyed"]
    /\ UNCHANGED <<model, last, codecVars, lock, uaf, twin>>

NextTeardown ==
    \/ (procs[1].pc = "idle" /\ Next)
    \/ Destroy
    \/ ClearCall
    \/ ClearDelete
    \/ DeleteHeader

SpecTeardown == Init /\ [][NextTeardown]_vars

\* ------------------------------------------- the lock and exceptions
\* Concurrent put and remove calls, with a node creation that may throw
\* std::bad_alloc.  twin.variant tells the class of the list:
\*   XSFSkipList (and momu's SkipList): std::lock_guard<std::mutex>, whose
\*     destructor unlocks when the exception leaves put;
\*   SkipList of part_000: mtx.lock() at the top of insert_element and
\*     mtx.unlock() before each return (lines 189, 215, 242).
InitLock ==
    /\ \E seed \in Seeds : sl = EmptyList(seed)
    /\ model = ModelInit
    /\ last = NoCall
    /\ procs = [p \in Procs |-> Idle]
    /\ lock = 0
    /\ uaf = FALSE
    /\ file = << >>
    /\ codec = NoRound
    /\ \E variant \in Variants : twin = [NoTwin EXCEPT !.variant = variant]

\* put of an absent key, from the lock to create_node, which throws: the
\* exception leaves put.
PutCallBadAlloc(p, k) ==
    /\ procs[p].pc = "idle"
    /\ lock = 0
    /\ ~IsHit(sl, k)
    /\ sl' = put_bad_alloc(sl)
    /\ lock' = IF twin.variant = "SkipList" THEN p ELSE 0
    /\ UNCHANGED <<model, last, procs, codecVars, uaf, twin>>

NextLock ==
    \/ \E p \in Procs, k \in ConcKeys, v \in Values : PutCall(p, k, v)
    \/ \E p \in Procs, k \in ConcKeys : PutCallBadAlloc(p, k)
    \/ \E p \in Procs : PutSplice(p)
    \/ \E p \in Procs : PutFinish(p)
    \/ \E p \in Procs : PutUnlock(p)
    \/ \E p \in Procs, k \in ConcKeys : RemoveCall(p, k)
    \/ \E p \in Procs : RemoveUnlink(p)
    \/ \E p \in Procs : RemoveAdjust(p)
    \/ \E p \in Procs : RemoveDelete(p)
    \/ \E p \in Procs : RemoveFinish(p)
    \/ \E p \in Procs : RemoveUnlock(p)

SpecLock == InitLock /\ [][NextLock]_vars

\* ------------------------------------------------------------------ claims
\* C1: a get(key) returns the value of the most recent put(key, v) not since
\* followed by remove(key), and absent when there is none; contains(key) is
\* true exactly when get(key) returns a value.
C1_GetReturnsLatestPut ==
    /\ last.op = "get" => last.res = model[last.key]
    /\ last.op = "contains" =>
          /\ last.res = (get(sl, last.key) # Absent)
          /\ last.res = (model[last.key] # Absent)

C1_Witness ==
    /\ last.op = "get"
    /\ last.res # Absent
    /\ \E k \in Keys : k < last.key /\ model[k] # Absent
    /\ \E k \in Keys : k > last.key /\ model[k] = Absent

\* C2: the level-0 chain holds exactly the present keys, each once, in
\* strictly increasing order, and its length is size().
C2_Level0Chain ==
    LET chain == LevelChain(sl, 0) IN
    /\ AllLive(sl, chain)
    /\ StrictlyIncreasing(KeysOf(sl, chain))
    /\ SeqSet(KeysOf(sl, chain)) = Present
    /\ Len(chain) = size(sl)

C2_Witness ==
    /\ last.op = "remove"
    /\ last.res = TRUE
    /\ Len(LevelChain(sl, 0)) >= 2

\* C7: put(k, v2) with k present changes k's value and nothing else: a get(k)
\* then returns v2, no node is created, and size(), the nodes, every forward
\* link, the list's level and the generator's state are as before.
C7_PutExisting ==
    [][ (last'.op = "put" /\ HasKey(sl, last'.key)) =>
          LET k == last'.key
              n == NodeOf(sl, k)
          IN  /\ last'.res = 1
              /\ get(sl', k) = model'[k]
              /\ Nodes(sl') = Nodes(sl)
              /\ Cardinality({m \in Nodes(sl') : sl'.key_[m] = k}) = 1
              /\ size(sl') = size(sl)
              /\ sl'.key_ = sl.key_
              /\ sl'.node_level_ = sl.node_level_
              /\ sl'.forward_ = sl.forward_
              /\ sl'.skip_list_level_ = sl.skip_list_level_
              /\ sl'.gen_ = sl.gen_
              /\ \A m \in Nodes(sl) \ {n} : sl'.value_[m] = sl.value_[m]
      ]_vars

C7_Witness ==
    /\ last.op = "put"
    /\ last.res = 1
    /\ size(sl) >= 2
    /\ sl.skip_list_level_ >= 1

\* C8: remove(k) with k absent reports "not found" and changes nothing:
\* size(), the key -> value set, every forward link and the list's level are
\* as before.
C8_RemoveAbsent ==
    [][ (last'.op = "remove" /\ ~HasKey(sl, last'.key)) =>
          /\ last'.res = FALSE
          /\ size(sl') = size(sl)
          /\ AbsMap(sl') = AbsMap(sl)
          /\ sl'.forward_ = sl.forward_
          /\ sl'.skip_list_level_ = sl.skip_list_level_
          /\ sl' = sl
      ]_vars

C8_Witness ==
    /\ last.op = "remove"
    /\ last.res = FALSE
    /\ size(sl) >= 2
    /\ \E k \in Keys : k > last.key /\ model[k] # Absent

\* C9: remove(k) with k present unlinks k's node from every level, lowers
\* size() by one, leaves every other key, its value and the order of the
\* remaining keys at every level as they were; a get(k) then returns absent.
C9_RemovePresent ==
    [][ (last'.op = "remove" /\ HasKey(sl, last'.key)) =>
          LET k == last'.key
              n == NodeOf(sl, k)
          IN  /\ last'.res = TRUE
              /\ \A i \in Levels : n \notin SeqSet(LevelChain(sl', i))
              /\ \A i \in Levels : AllLive(sl', LevelChain(sl', i))
              /\ size(sl') = size(sl) - 1
              /\ AbsMap(sl') = [AbsMap(sl) EXCEPT ![k] = Absent]
              /\ \A i \in Levels :
                    KeysOf(sl', LevelChain(sl', i)) =
                        SelectSeq(KeysOf(sl, LevelChain(sl, i)), LAMBDA x : x # k)
              /\ get(sl', k) = Absent
      ]_vars

C9_Witness ==
    /\ last.op = "remove"
    /\ last.res = TRUE
    /\ size(sl) >= 2
    /\ \E k \in Keys : k < last.key /\ model[k] # Absent
    /\ \E k \in Keys : k > last.key /\ model[k] # Absent

InWriter(q) ==
    procs[q].pc \in {"put_splice", "put_count", "put_unlock",
                     "rm_unlink", "rm_adjust", "rm_delete", "rm_count", "rm_unlock"}

Quiescent == \A p \in Procs : procs[p].pc = "idle"

\* C3: every operation on the links runs under the one exclusive lock: in no
\* state is a caller inside a traversal while another caller is inside put or
\* remove.
C3_NoOverlapWithWriter ==
    \A p \in Procs, q \in Procs :
        (p # q /\ InWriter(q)) => procs[p].pc \notin Walking

\* C4: no traversal reads a field of a node that remove has released.
C4_NoUseAfterFree == uaf = FALSE

C6_GetSeesCompletedPut ==
    \A p \in Procs :
        (procs[p].pc = "get_ret" /\ procs[p].stable /\ procs[p].exp # Absent)
            => procs[p].res = procs[p].exp

RoundTrip ==
    /\ ~codec.threw
    /\ Pairs(sl) = codec.pairs
    /\ size(sl) = codec.count

RECURSIVE IsSubsequence(_, _)
IsSubsequence(a, b) ==
    IF a = << >> THEN TRUE
    ELSE IF b = << >> THEN FALSE
    ELSE IF Head(a) = Head(b) THEN IsSubsequence(Tail(a), Tail(b))
    ELSE IsSubsequence(a, Tail(b))

\* C13: after any sequence of put and remove calls, for every level i >= 1
\* the level-i chain is a strictly key-increasing subsequence of the level-(i-1)
\* chain: a node linked at level i is linked at every level below, and keys
\* strictly increase along every level.
C13_LevelChainsNested ==
    /\ \A i \in 1..MaxLevel : IsSubsequence(LevelChain(sl, i), LevelChain(sl, i - 1))
    /\ LevelContiguity(sl)
    /\ PerLevelOrder(sl)

\* A remove has taken a node out of a list that still holds a node of every
\* level count: three levels in use, level 1 shorter than level 0.
C13_Witness ==
    /\ last.op = "remove" /\ last.res = TRUE
    /\ Len(LevelChain(sl, 0)) = 2
    /\ Len(LevelChain(sl, 1)) = 1
    /\ \E n \in Nodes(sl) : sl.node_level_[n] = 0 /\ sl.key_[n] < sl.key_[LevelChain(sl, 1)[1]]

C12_AllocFailureKeepsState ==
    [][ last'.op = "put_bad_alloc" =>
          /\ sl'.forward_ = sl.forward_
          /\ sl'.skip_list_level_ = sl.skip_list_level_
          /\ sl'.element_count_ = sl.element_count_ ]_vars

\* A line with no ':' delimiter, an empty key segment or an empty value
\* segment.
Malformed(line) ==
    \/ Find(line, Colon) = 0
    \/ KeyPart(line) = << >>
    \/ ValuePart(line) = << >>

NoPutForMalformed ==
    \A j \in 1..Len(codec.log) : Malformed(codec.log[j].line) => ~codec.log[j].put

\* C11: during load, every line with no ':', an empty key segment or an empty
\* value segment is skipped: no put is issued for it and exactly one
\* MalformedRecord diagnostic is reported for it.
C11_MalformedLineSkipped ==
    \A j \in 1..Len(codec.log) :
        Malformed(codec.log[j].line) =>
            /\ ~codec.log[j].put
            /\ codec.log[j].said.kind = "MalformedRecord"

\* The pairs left by applying put, in file order, to the well-formed lines,
\* each split at its first ':'; a later line overwrites an earlier one with
\* the same key.  A segment that is no number makes the line unparsable.
RECURSIVE ExpectedPairs(_, _)
ExpectedPairs(lines, acc) ==
    IF lines = << >> THEN acc
    ELSE LET line == Head(lines) IN
         IF Malformed(line) \/ ~stoi(KeyPart(line)).ok \/ ~stoi(ValuePart(line)).ok
         THEN ExpectedPairs(Tail(lines), acc)
         ELSE LET k == stoi(KeyPart(line)).val
                  v == stoi(ValuePart(line)).val
              IN  ExpectedPairs(Tail(lines), {pr \in acc : pr[1] # k} \cup {<<k, v>>})

\* C19: after load of any sequence of lines into an empty map, the map is the
\* result of applying put to the well-formed lines only, in file order;
\* malformed lines among them change nothing.
C19_LoadAppliesWellFormedLines ==
    codec.phase = "loaded" =>
        /\ Pairs(sl) = ExpectedPairs(GetLines(file), {})
        /\ size(sl) = Cardinality(ExpectedPairs(GetLines(file), {}))

\* The same, for the loads that std::stoi did not end.
LoadAppliesWellFormedLinesUnlessThrown ==
    (codec.phase = "loaded" /\ ~codec.threw) =>
        /\ Pairs(sl) = ExpectedPairs(GetLines(file), {})
        /\ size(sl) = Cardinality(ExpectedPairs(GetLines(file), {}))

\* The two lists hold the same keys in the same order at every level, with
\* the same values, and have the same skip_list_level_.
SameLinks(a, b) ==
    /\ a.skip_list_level_ = b.skip_list_level_
    /\ \A i \in Levels : KeysOf(a, LevelChain(a, i)) = KeysOf(b, LevelChain(b, i))
    /\ Pairs(a) = Pairs(b)

\* C15: two lists built with the same seed and given the same sequence of put
\* and remove calls have identical link structures at every level, whatever
\* any other list of the process does.
C15_SameSeedSameLinks ==
    (twin.variant \in Variants /\ twin.ahead = << >>) => SameLinks(sl, twin.sl)

\* The same, for the lists that own their generator.
SameSeedSameLinksOwnGenerator ==
    (twin.variant = "XSFSkipList" /\ twin.ahead = << >>) =>
        /\ SameLinks(sl, twin.sl)
        /\ sl.gen_ = twin.sl.gen_

\* C16: every put and every remove call returns after finitely many steps,
\* for every max_level the constructor accepts and every level the generator
\* can draw, the largest value of the 8-bit level type included.
C16_CallsReturn == (procs[1].pc # "idle") ~> (procs[1].pc = "idle")

\* The same, for the lists constructed with a max_level below 255.
CallsReturnBelowTop ==
    (procs[1].pc # "idle" /\ max_level_(sl) < 2 ^ LevelBits - 1) ~> (procs[1].pc = "idle")

\* C17: every level get_random_level returns lies in 0..max_level_;
\* in every put, every index used on update[] and on the header's forward_
\* is at most max_level_, and every index used on a predecessor's forward_ is
\* at most that node's level.
C17_IndicesInRange ==
    LET pr == procs[1]
        ml == max_level_(sl)
    IN  /\ pr.lvl \in 0..ml
        /\ pr.pc = "put_search" =>
              /\ pr.i \in 0..ml
              /\ pr.i <= sl.node_level_[pr.cur]
        /\ (pr.pc = "put_raise" /\ pr.i < pr.lvl + 1) => pr.i \in 0..ml
        /\ (pr.pc = "put_splice" /\ pr.i <= pr.lvl) =>
              /\ pr.i \in 0..ml
              /\ pr.update[pr.i] \in DOMAIN sl.forward_
              /\ pr.i <= sl.node_level_[pr.update[pr.i]]
              /\ pr.i <= sl.node_level_[pr.cur]

\* A put splices its node at the ceiling level of a list whose predecessor
\* at that level is another node, not the header.
C17_Witness ==
    /\ procs[1].pc = "put_splice"
    /\ procs[1].lvl = max_level_(sl)
    /\ procs[1].i = procs[1].lvl
    /\ max_level_(sl) > MaxLevel
    /\ procs[1].update[procs[1].i] # Header

\* The last node of the level-i chain whose key is less than k, the header
\* when there is none.
LastLess(s, i, k) ==
    LET ch == LevelChain(s, i)
        less == {j \in 1..Len(ch) : s.key_[ch[j]] < k}
    IN  IF less = {} THEN Header ELSE ch[SetMax(less)]

\* C18: after the search pass for key k inside put or remove, for every level
\* i in 0..skip_list_level_, update[i] is the last node of the level-i chain
\* whose key is less than k (the header when there is none), and k is in the
\* map exactly when update[0]->forward_[0] exists and holds key k.
C18_SearchPassPredecessors ==
    procs[1].pc \in {"put_match", "rm_match"} =>
        LET k == procs[1].key
            update == procs[1].update
            c == sl.forward_[update[0]][0]
        IN  /\ \A i \in 0..sl.skip_list_level_ : update[i] = LastLess(sl, i, k)
            /\ procs[1].cur = update[0]
            /\ HasKey(sl, k) <=> (c # Null /\ sl.key_[c] = k)

\* A remove has searched a key that is present, through two levels with
\* different predecessors, neither the header at level 0.
C18_Witness ==
    /\ procs[1].pc = "rm_match"
    /\ HasKey(sl, procs[1].key)
    /\ sl.skip_list_level_ >= 1
    /\ procs[1].update[0] # Header
    /\ procs[1].update[1] # procs[1].update[0]

\* C20: teardown releases the nodes by an iterative walk of the level-0 chain
\* from the first node forward: the nodes are released in level-0 order (keys
\* increasing) and no more than one activation of clear is ever on the call
\* stack, however many elements the list holds.
C20_TeardownIterative ==
    /\ Len(procs[1].stack) <= 1
    /\ StrictlyIncreasing(procs[1].freed)

\* Every node of the list is released by the time the header is.
TeardownReleasesAll ==
    procs[1].pc = "destroyed" =>
        /\ Nodes(sl) = {}
        /\ Len(procs[1].freed) = sl.element_count_

\* No forward link of the header or of a node of the list holds a pointer to
\* a node that was deleted.
NoDanglingLink(s) ==
    /\ s.released = {}
    /\ \A m \in DOMAIN s.forward_ : \A i \in DOMAIN s.forward_[m] :
          s.forward_[m][i] \in {Null} \cup Nodes(s)

NoDuplicates(q) == \A a \in 1..Len(q), b \in 1..Len(q) : a # b => q[a] # q[b]

C22_LockFreeAfterCall == lock # 0 => procs[lock].pc # "idle"

\* The same, for the lists that lock with std::lock_guard.
LockFreeAfterCallLockGuard ==
    (twin.variant = "XSFSkipList" /\ lock # 0) => procs[lock].pc # "idle"


====
